---------------------------- MODULE Spec2Model ----------------------------
(***************************************************************************)
(* Model of attractor_cinematic.c: the per-frame pipeline of main()        *)
(* (scheduler, buffer clear, integration with respawn, statistics, camera, *)
(* rasterization with atomic accumulation, tone map, emission), the        *)
(* startup allocations, and the heatmap function.                          *)
(*                                                                         *)
(* Number representation.                                                  *)
(*  - transition_blend is a float32 in [0,2): it is held as the integer    *)
(*    n with value n * 2^-30, and float32 addition is the exact sum        *)
(*    rounded to a 24-bit significand, ties to even (F32Round).            *)
(*  - camera quantities are fixed point, 1/1000 (Milli).                   *)
(*  - particle coordinates are float values held as records                *)
(*    [nan, v], v in units of 1/250, so that the respawn value             *)
(*    (hash - 0.5) * 4 = (r - 500) / 250 is the integer r - 500.           *)
(*  - heatmap inputs are in 1/1000, heatmap outputs in 1/10000.            *)
(***************************************************************************)
EXTENDS Integers, Sequences, FiniteSets, TLC

VARIABLES
    \* process parameters and configuration (set at startup, then fixed)
    fragments, frames_per_fragment, cfg_min_zoom, cfg_max_zoom,
    \* frame loop and scheduler
    frame, algo_timer, current_type, previous_type, transition_blend,
    cur_p, target_p, log_lines, blend_apps,
    \* pipeline position and the stages run so far in the current frame
    pc, stages, emitted,
    \* particle arrays (positions, velocities) over the particle indices
    \* modelled, and the indices the last integration pass respawned
    h_pos, h_vel, respawned,
    \* camera
    cam_scale, smooth_base_multiplier, mean_dist,
    \* rasterizer: per-particle position in the loop body, its projection,
    \* and the accumulation and output buffers
    rpc, proj, accum_buffer, out_buffer,
    \* startup: which allocations returned NULL, what startup did
    failed, did, nullDeref,
    \* heatmap function under test
    heat_t, heat_out,
    \* statistics passes: the particle count, the divisor, the loop index
    \* and the number of particles the loop has visited
    num_particles, num_samples, stat_i, visited

schedVars == <<frame, algo_timer, current_type, previous_type,
               transition_blend, cur_p, target_p, log_lines, blend_apps>>
cfgVars   == <<fragments, frames_per_fragment, cfg_min_zoom, cfg_max_zoom>>
pipeVars  == <<pc, stages, emitted>>
partVars  == <<h_pos, h_vel, respawned>>
camVars   == <<cam_scale, smooth_base_multiplier, mean_dist>>
rastVars  == <<rpc, proj, accum_buffer, out_buffer>>
allocVars == <<failed, did, nullDeref>>
heatVars  == <<heat_t, heat_out>>
statVars  == <<num_particles, num_samples, stat_i, visited>>

vars == <<cfgVars, schedVars, pipeVars, partVars, camVars, rastVars,
          allocVars, heatVars, statVars>>

----------------------------------------------------------------------------
(* Program constants *)

NUM_TYPES == 5
TRANSITION_FRAMES == 120
ALGO_PERIOD == 6
TYPE_AIZAWA == 0
TYPE_THOMAS == 1
TYPE_LORENZ == 2
TYPE_HALVORSEN == 3
TYPE_CHEN == 4
NUM_PARTICLES == 2000000
HASH_MULT == 1327
HASH_MOD == 1000
WIDTH == 1920
HEIGHT == 1080

Types == 0 .. (NUM_TYPES - 1)

(* Bounds of the model *)
MaxFpf == 22          \* frames_per_fragment ranges over 1..MaxFpf
NumFragments == 12    \* fragments in the scheduler runs
NumIntegParticles == 1 \* particles followed through the integration passes
MaxCamFrames == 7     \* frames of the camera runs
NumRasterParticles == 2 \* particles of the rasterization runs
NumPixels == 2        \* pixels of the screen followed
MaxRasterFrames == 2  \* frames of the rasterization runs
NumPipeParticles == 1 \* particles of the whole-pipeline runs
MaxPipeFrames == 2    \* frames of the whole-pipeline runs
MaxStatParticles == 320 \* largest particle count of the statistics runs

----------------------------------------------------------------------------
(* float32 arithmetic on [0,2), in units of 2^-30 *)

One == 2^30

RECURSIVE Ulp(_)
Ulp(n) == IF n < 2^24 THEN 1 ELSE 2 * Ulp(n \div 2)

F32Round(n) ==
    LET q    == Ulp(n)
        r    == n % q
        base == n - r
    IN  IF 2 * r > q \/ (2 * r = q /\ (base \div q) % 2 = 1)
        THEN base + q ELSE base

F32Add(a, b) == F32Round(a + b)

\* a / b rounded to the nearest unit (the quotient is below 2^24 units)
F32Div(a, b) == (a + b \div 2) \div b

\* 1.0f / TRANSITION_FRAMES
BlendInc == F32Div(One, TRANSITION_FRAMES)

\* lines 286-287: one application of the blend increment, then the clamp
BlendStepHalf(b) ==
    LET s == F32Add(b, BlendInc \div 2) IN IF s > One THEN One ELSE s

BlendStep(b) == LET s == F32Add(b, BlendInc) IN IF s > One THEN One ELSE s

----------------------------------------------------------------------------
(* Parameter sets, in units of 1/10000 *)

\* rand_range_cpu(-w, w): the draws modelled are the two ends and the middle
Jitter(w) == {-w, 0, w}

ZeroParams == [a |-> 0, b |-> 0, c |-> 0, d |-> 0, e |-> 0, f |-> 0]

\* get_target_params: the set of results over the random draw
TargetParams(type) ==
    CASE type = TYPE_AIZAWA ->
           { [a |-> 9500, b |-> 7000, c |-> 6000, d |-> 35000 + j,
              e |-> 2500, f |-> 1000] : j \in Jitter(5000) }
      [] type = TYPE_THOMAS ->
           { [ZeroParams EXCEPT !.b = 1900 + j] : j \in Jitter(200) }
      [] type = TYPE_LORENZ ->
           { [ZeroParams EXCEPT !.a = 100000, !.b = 280000 + j, !.c = 26600]
               : j \in Jitter(50000) }
      [] type = TYPE_HALVORSEN ->
           { [ZeroParams EXCEPT !.a = 14000 + j] : j \in Jitter(2000) }
      [] type = TYPE_CHEN ->
           { [ZeroParams EXCEPT !.a = 400000, !.b = 30000, !.c = 280000] }
      [] OTHER -> { ZeroParams }

\* C float-to-fixed product v * 0.02, truncated toward zero
Trunc(n, d) == IF n >= 0 THEN n \div d ELSE -((-n) \div d)
Lerp(cur, tgt, num, den) == cur + Trunc((tgt - cur) * num, den)

\* lines 279-282
LerpParams(c, t) ==
    [a |-> Lerp(c.a, t.a, 2, 100), b |-> Lerp(c.b, t.b, 2, 100),
     c |-> Lerp(c.c, t.c, 2, 100), d |-> Lerp(c.d, t.d, 2, 100),
     e |-> Lerp(c.e, t.e, 2, 100), f |-> Lerp(c.f, t.f, 2, 100)]

----------------------------------------------------------------------------
(* Scheduler: lines 256-288 of the frame loop *)

total_frames == fragments * frames_per_fragment

AtBoundary == frame % frames_per_fragment = 0

\* lines 256-258: the timer is incremented at every boundary, frame 0
\* included, and the type changes when it reaches ALGO_PERIOD
TypeChangeDue == AtBoundary /\ algo_timer + 1 >= ALGO_PERIOD

NextType(t) == (t + 1) % NUM_TYPES

\* blend_apps counts the applications of line 286 since the last reset of
\* transition_blend (line 262); it is an observer, the code has no such field.
\* log_lines counts the chapter records written (lines 240 and 270).
SchedulerUpdate ==
    LET blend0 == IF TypeChangeDue THEN 0 ELSE transition_blend
        apps0  == IF TypeChangeDue THEN 0 ELSE blend_apps
    IN
    /\ IF TypeChangeDue
       THEN /\ previous_type' = current_type
            /\ current_type' = NextType(current_type)
            /\ algo_timer' = 0
            /\ \E p \in TargetParams(NextType(current_type)) :
                 /\ target_p' = p
                 /\ cur_p' = LerpParams(cur_p, p)
            /\ log_lines' = log_lines + 1
       ELSE /\ algo_timer' = IF AtBoundary THEN algo_timer + 1 ELSE algo_timer
            /\ UNCHANGED <<previous_type, current_type, target_p, log_lines>>
            /\ cur_p' = LerpParams(cur_p, target_p)
    /\ IF blend0 < One
       THEN /\ transition_blend' = BlendStep(blend0)
            /\ blend_apps' = apps0 + 1
       ELSE /\ transition_blend' = blend0
            /\ blend_apps' = apps0

\* lines 235-252: the scheduler's state before the first frame
SchedInit(st) ==
    /\ frame = 0
    /\ algo_timer = 0
    /\ current_type = st
    /\ previous_type = st
    /\ transition_blend = One
    /\ cur_p \in TargetParams(st)
    /\ target_p = cur_p
    /\ log_lines = 1
    /\ blend_apps = 0


----------------------------------------------------------------------------
(* 32-bit signed integer arithmetic (int i; i * 1327) *)

MaxInt32 == (2^30 - 1) + 2^30
MinInt32 == -MaxInt32 - 1

\* a + b wrapped to 32 bits (two's complement), a and b 32-bit values
WrapAdd(a, b) ==
    IF a >= 0 /\ b >= 0 /\ a > MaxInt32 - b
    THEN (a - MaxInt32 - 1) + (b - MaxInt32 - 1)
    ELSE IF a < 0 /\ b < 0 /\ a < MinInt32 - b
         THEN (a + MaxInt32 + 1) + (b + MaxInt32 + 1)
         ELSE a + b

\* a * k wrapped to 32 bits, k >= 0
RECURSIVE Mul32(_, _)
Mul32(a, k) ==
    IF k = 0 THEN 0
    ELSE LET h == Mul32(a, k \div 2)
             d == WrapAdd(h, h)
         IN  IF k % 2 = 1 THEN WrapAdd(d, a) ELSE d

Overflows(i, k) == i > MaxInt32 \div k

\* C's %: the remainder has the sign of the dividend
CRem(a, m) == IF a >= 0 THEN a % m ELSE -((-a) % m)

\* line 342, (i * 1327) % 1000.  The product overflows int for
\* i > 1618299, which is undefined: the outcomes are the wrapped product
\* (the multiply instruction's result) and the product as if computed wide.
HashOutcomes == {"wrapped", "wide"}

HashRem(i, outcome) ==
    IF Overflows(i, HASH_MULT)
    THEN IF outcome = "wrapped"
         THEN CRem(Mul32(i, HASH_MULT), HASH_MOD)
         ELSE ((i % HASH_MOD) * HASH_MULT) % HASH_MOD
    ELSE CRem(i * HASH_MULT, HASH_MOD)

----------------------------------------------------------------------------
(* Particle coordinates: float values, v in units of 1/250 *)

F(v) == [nan |-> FALSE, v |-> v]
NaN  == [nan |-> TRUE, v |-> 0]

FAdd(a, b) == IF a.nan \/ b.nan THEN NaN ELSE F(a.v + b.v)

\* fabs(a) > bound: false for NaN
FAbsGt(a, bound) == ~a.nan /\ (a.v > bound \/ -a.v > bound)

\* MAX_COORD (80.0f) in units of 1/250
MAX_COORD == 80 * 250

Vec(x, y, z) == [x |-> x, y |-> y, z |-> z]
ZeroVec == Vec(F(0), F(0), F(0))

\* line 341: the escape test
Escaped(p) ==
    \/ FAbsGt(p.x, MAX_COORD) \/ FAbsGt(p.y, MAX_COORD)
    \/ FAbsGt(p.z, MAX_COORD) \/ p.x.nan

\* lines 342-343: (hash - 0.5) * 4 = (r - 500) / 250, on all three axes
RespawnPos(r) == LET c == F(r - HASH_MOD \div 2) IN Vec(c, c, c)

\* Lines 300-339: the blended derivative times DT.  The five vector fields
\* are not evaluated; the step d * DT of one particle ranges over samples
\* of what float arithmetic can deliver on an axis: no move, a move of
\* 80.0 (to the bound from the origin, beyond it from anywhere further),
\* and not-a-number, on one axis at a time.
StepJump == MAX_COORD

StepSamples ==
    { ZeroVec }
    \cup { [ZeroVec EXCEPT ![ax] = d] :
              ax \in {"x", "y", "z"}, d \in {F(StepJump), F(-StepJump), NaN} }

\* lines 339-348 for particle i: the stored position and velocity, and
\* whether the particle was respawned
IntegrateOne(i, pos, d, outcome) ==
    LET p == Vec(FAdd(pos.x, d.x), FAdd(pos.y, d.y), FAdd(pos.z, d.z))
    IN  IF Escaped(p)
        THEN [pos |-> RespawnPos(HashRem(i, outcome)), vel |-> ZeroVec,
              resp |-> TRUE]
        ELSE [pos |-> p, vel |-> d, resp |-> FALSE]

\* lines 298-349: the integration pass.  Iterations write disjoint slots.
IntegratePass(steps) ==
    \E ds \in [DOMAIN h_pos -> steps], os \in [DOMAIN h_pos -> HashOutcomes] :
       LET res == [i \in DOMAIN h_pos |->
                     IntegrateOne(i, h_pos[i], ds[i], os[i])]
       IN  /\ h_pos' = [i \in DOMAIN h_pos |-> res[i].pos]
           /\ h_vel' = [i \in DOMAIN h_pos |-> res[i].vel]
           /\ respawned' = { i \in DOMAIN h_pos : res[i].resp }

\* particle indices followed: the ends of the array and the two indices
\* around the largest i with i * 1327 <= INT_MAX
IndexSamples ==
    { 0, 1, MaxInt32 \div HASH_MULT, MaxInt32 \div HASH_MULT + 1,
      NUM_PARTICLES - 1 }

\* lines 225-229: the initial box [-5,5]^3 (its corners and centre)
BoxSamples == { Vec(F(c), F(c), F(c)) : c \in {-5 * 250, 0, 5 * 250} }

InBox(p) ==
    \A ax \in {"x", "y", "z"} :
       ~p[ax].nan /\ p[ax].v >= -5 * 250 /\ p[ax].v <= 5 * 250

----------------------------------------------------------------------------
(* Values of the variables a specification does not use *)

CfgDefault ==
    /\ cfg_min_zoom = 60000        \* line 44, in 1/1000
    /\ cfg_max_zoom = 2000000      \* line 45

PipeOff  == pc = "off" /\ stages = <<>> /\ emitted = <<>>
PartOff  == h_pos = <<>> /\ h_vel = <<>> /\ respawned = {}
CamOff   == cam_scale = 0 /\ smooth_base_multiplier = 0 /\ mean_dist = <<0, 0>>
RastOff  == rpc = <<>> /\ proj = <<>> /\ accum_buffer = <<>> /\ out_buffer = <<>>
AllocOff == failed = {} /\ did = {} /\ nullDeref = FALSE
HeatOff  == heat_t = 0 /\ heat_out = <<>>
StatsOff == num_particles = 0 /\ num_samples = 0 /\ stat_i = 0 /\ visited = 0
SchedOff ==
    /\ frame = 0 /\ algo_timer = 0 /\ current_type = 0 /\ previous_type = 0
    /\ transition_blend = One /\ cur_p = ZeroParams /\ target_p = ZeroParams
    /\ log_lines = 0 /\ blend_apps = 0

----------------------------------------------------------------------------
(* SpecSched: the frame loop seen through the scheduler's variables.       *)
(* Lines 290-475 of the loop body write none of them, so one step is one   *)
(* iteration of the loop.                                                  *)

InitSched ==
    /\ frames_per_fragment \in 1 .. MaxFpf
    /\ fragments = NumFragments
    /\ \E st \in Types : SchedInit(st)
    /\ CfgDefault /\ PipeOff /\ PartOff /\ CamOff /\ RastOff /\ AllocOff
    /\ HeatOff /\ StatsOff

SchedFrame ==
    /\ frame < total_frames
    /\ SchedulerUpdate
    /\ frame' = frame + 1
    /\ UNCHANGED <<cfgVars, pipeVars, partVars, camVars, rastVars, allocVars,
                   heatVars, statVars>>

NextSched == SchedFrame

SpecSched == InitSched /\ [][NextSched]_vars

\* number of type changes so far (chapter records after the initial one)
changes == log_lines - 1

(* C4: the attractor type changes only at a fragment boundary, first once  *)
(* 6 full fragments (6 x frames_per_fragment frames) have run and then     *)
(* every 6 fragments; a change sets current_type to (current_type+1) mod 5,*)
(* previous_type to the old current_type, draws a new target and resets    *)
(* blend; between changes the three are unchanged.                         *)
(* As stated: no type change has happened while fewer than                 *)
(* 6 x frames_per_fragment frames have run.                                *)
C4_FirstChangeAfterSixFragments ==
    changes >= 1 => frame > ALGO_PERIOD * frames_per_fragment

(* C5: within a cross-fade window blend stays in [0,1], never decreases,   *)
(* is exactly 1.0 after 120 applications of the increment and not before,  *)
(* and then stays 1.0.                                                     *)
(* As stated: once the increment has been applied TRANSITION_FRAMES times  *)
(* since the reset, blend is 1.0.                                          *)
C5_BlendOneAfter120 ==
    blend_apps >= TRANSITION_FRAMES => transition_blend = One

(* C6 as stated: for every frames_per_fragment >= 1, after exactly         *)
(* 6 x frames_per_fragment frames exactly one type change has happened,    *)
(* and the blend it started reaches 1.0 by frame                           *)
(* 6 x frames_per_fragment + 120, before any further change resets it.     *)
(* frame counts the iterations completed.                                  *)
C6_AtFrames(minFpf) ==
    frames_per_fragment >= minFpf =>
       /\ (frame = ALGO_PERIOD * frames_per_fragment => changes = 1)
       /\ (changes = 1 /\ frame >= ALGO_PERIOD * frames_per_fragment
                                   + TRANSITION_FRAMES
             => transition_blend = One)

C6_NotCutShort(minFpf) ==
    frames_per_fragment >= minFpf /\ changes = 1 /\ changes' = 2
       => transition_blend = One

C6_EveryFpf == [](C6_AtFrames(1)) /\ [][C6_NotCutShort(1)]_vars

(* C6 as amended: the same for every frames_per_fragment >= 21             *)
(* (TRANSITION_FRAMES / 6 + 1): the 6 fragments between two changes then   *)
(* hold the 121 applications blend needs.                                  *)
MinFpf == TRANSITION_FRAMES \div ALGO_PERIOD + 1

C6_FpfAtLeast21 == [](C6_AtFrames(MinFpf)) /\ [][C6_NotCutShort(MinFpf)]_vars

C6_Witness ==
    /\ frames_per_fragment = MinFpf
    /\ changes = 2
    /\ frame > ALGO_PERIOD * frames_per_fragment + TRANSITION_FRAMES

----------------------------------------------------------------------------
(* SpecInteg: the frame loop seen through the particle arrays.  Only the   *)
(* integration pass (lines 298-349) writes them.                           *)

InitInteg ==
    /\ \E S \in SUBSET IndexSamples :
         /\ Cardinality(S) = NumIntegParticles
         /\ h_pos \in [S -> BoxSamples]
         /\ h_vel = [i \in S |-> ZeroVec]
    /\ respawned = {}
    /\ fragments = 0 /\ frames_per_fragment = 1
    /\ CfgDefault /\ SchedOff /\ PipeOff /\ CamOff /\ RastOff /\ AllocOff
    /\ HeatOff /\ StatsOff

IntegFrame ==
    /\ IntegratePass(StepSamples)
    /\ UNCHANGED <<cfgVars, schedVars, pipeVars, camVars, rastVars, allocVars,
                   heatVars, statVars>>

NextInteg == IntegFrame

SpecInteg == InitInteg /\ [][NextInteg]_vars

InBounds(c) == ~c.nan /\ c.v <= MAX_COORD /\ -c.v <= MAX_COORD

C2_RespawnWithinTwo ==
    \A i \in respawned :
       /\ h_pos[i].x = h_pos[i].y /\ h_pos[i].y = h_pos[i].z
       /\ ~h_pos[i].x.nan
       /\ h_pos[i].x.v >= -2 * 250 /\ h_pos[i].x.v <= 2 * 250
       /\ h_vel[i] = ZeroVec

----------------------------------------------------------------------------
(* Camera controller, lines 242-245, 275-277 and 379-414.  Fixed point,    *)
(* 1/1000.                                                                 *)

Milli == 1000

\* ATTRACTOR_BASE_MULTIPLIERS, lines 32-38
BaseMultiplier(type) ==
    CASE type = TYPE_AIZAWA -> 800
      [] type = TYPE_THOMAS -> 800
      [] type = TYPE_LORENZ -> 2500
      [] type = TYPE_HALVORSEN -> 1200
      [] type = TYPE_CHEN -> 2500

\* cfg_screen_fill_factor, line 43
FillFactor == 70

\* line 242
InitCamScale(cfg_initial_cam_scale) ==
    IF cfg_initial_cam_scale > 0 THEN cfg_initial_cam_scale ELSE 100 * Milli

\* lines 381-391 with cfg_zoom_oscillation = 0 and cfg_dynamic_adjustment = 0
\* (lines 41-42): 1 + zoom_wave * 0 and clamp(1 + (ratio - 1) * 0, 0.85, 1.15)
SinusoidalFactor == Milli
DynamicFactor ==
    LET d == Milli IN IF d < 850 THEN 850 ELSE IF d > 1150 THEN 1150 ELSE d

\* lines 395-400: the extent on one axis, floored at 1.0
TargetExtent(dist, base) ==
    LET combined == Trunc(Trunc(base * DynamicFactor, Milli) * SinusoidalFactor,
                          Milli)
        t        == Trunc(dist * combined, Milli)
    IN  IF t < Milli THEN Milli ELSE t

\* lines 406-407: the two clamps, in the code's order
ClampZoom(t) ==
    LET lo == IF t < cfg_min_zoom THEN cfg_min_zoom ELSE t
    IN  IF lo > cfg_max_zoom THEN cfg_max_zoom ELSE lo

\* lines 402-407
TargetScale(mean_dist_x, mean_dist_y, base) ==
    LET scale_w == Trunc(WIDTH * FillFactor * Milli,
                         TargetExtent(mean_dist_x, base))
        scale_h == Trunc(HEIGHT * FillFactor * Milli,
                         TargetExtent(mean_dist_y, base))
    IN  ClampZoom(IF scale_w < scale_h THEN scale_w ELSE scale_h)

\* lines 276-277, with the type the scheduler has just set
BaseMultiplierUpdate ==
    smooth_base_multiplier' =
        Lerp(smooth_base_multiplier, BaseMultiplier(current_type'), 2, 100)

\* line 409, with the multiplier this frame's lines 276-277 produced
CameraUpdate(mean_dist_x, mean_dist_y) ==
    cam_scale' =
        Lerp(cam_scale,
             TargetScale(mean_dist_x, mean_dist_y, smooth_base_multiplier'),
             5, Milli)

\* Lines 351-377: the aggregator's mean absolute deviations (x, y), in
\* 1/1000.  The passes over the particles are not evaluated; the output
\* ranges over samples: a cloud at one point, a tight one, a wide one and
\* one at the particle bound.
MadSamples == { <<0, 0>>, <<700, 400>>, <<9000, 12000>>, <<80000, 80000>> }

\* configurations: the defaults (lines 44-46), and files setting min_zoom,
\* max_zoom, initial_cam_scale
ZoomConfigs ==
    { [min |-> 60 * Milli, max |-> 2000 * Milli, init |-> -Milli],
      [min |-> 200 * Milli, max |-> 2000 * Milli, init |-> -Milli],
      [min |-> 60 * Milli, max |-> 70 * Milli, init |-> -Milli],
      [min |-> 60 * Milli, max |-> 2000 * Milli, init |-> 65 * Milli],
      [min |-> 60 * Milli, max |-> 2000 * Milli, init |-> 10 * Milli] }

(* SpecCam: the frame loop seen through the scheduler and the camera.      *)
InitCam ==
    /\ \E c \in ZoomConfigs :
         /\ cfg_min_zoom = c.min
         /\ cfg_max_zoom = c.max
         /\ cam_scale = InitCamScale(c.init)
    /\ mean_dist = <<0, 0>>
    /\ \E st \in {TYPE_AIZAWA, TYPE_CHEN} :
         /\ SchedInit(st)
         /\ smooth_base_multiplier = BaseMultiplier(st)
    /\ frames_per_fragment = 1
    /\ fragments = MaxCamFrames
    /\ PipeOff /\ PartOff /\ RastOff /\ AllocOff /\ HeatOff /\ StatsOff

CamFrame ==
    /\ frame < total_frames
    /\ SchedulerUpdate
    /\ BaseMultiplierUpdate
    /\ \E m \in MadSamples : mean_dist' = m /\ CameraUpdate(m[1], m[2])
    /\ frame' = frame + 1
    /\ UNCHANGED <<cfgVars, pipeVars, partVars, rastVars, allocVars, heatVars, statVars>>

NextCam == CamFrame

SpecCam == InitCam /\ [][NextCam]_vars

(* C3: the camera scale (cam_scale) is within [min_zoom, max_zoom] in      *)
(* every frame, from its initial value onward, for any aggregator output   *)
(* and any configured min_zoom, max_zoom and initial_cam_scale.            *)
C3_CamScaleInZoomRange ==
    cfg_min_zoom <= cam_scale /\ cam_scale <= cfg_max_zoom

----------------------------------------------------------------------------
(* get_heatmap_color, lines 125-132.  t in 1/1000, r, g, b in 1/10000.     *)

HeatOne == 10 * Milli

HeatSeg1(t) == <<0, t * 50, HeatOne>>
HeatSeg2(t) == <<0, HeatOne, HeatOne - (t - 200) * 33>>
HeatSeg3(t) == <<(t - 500) * 33, HeatOne, 0>>
HeatSeg4(t) == <<HeatOne, HeatOne - (t - 800) * 50, (t - 800) * 50>>

get_heatmap_color(t) ==
    LET tc == IF t < 0 THEN 0 ELSE IF t > Milli THEN Milli ELSE t
    IN  IF tc < 200 THEN HeatSeg1(tc)
        ELSE IF tc < 500 THEN HeatSeg2(tc)
        ELSE IF tc < 800 THEN HeatSeg3(tc)
        ELSE HeatSeg4(tc)

(* SpecHeat: get_heatmap_color applied to an input.                        *)
HeatInputs == (-100) .. 1100

InitHeat ==
    /\ heat_t \in HeatInputs
    /\ heat_out = <<>>
    /\ fragments = 0 /\ frames_per_fragment = 1
    /\ CfgDefault /\ SchedOff /\ PipeOff /\ PartOff /\ CamOff /\ RastOff
    /\ AllocOff /\ StatsOff

HeatCall ==
    /\ heat_out = <<>>
    /\ heat_out' = get_heatmap_color(heat_t)
    /\ UNCHANGED <<heat_t, cfgVars, schedVars, pipeVars, partVars, camVars,
                   rastVars, allocVars, statVars>>

NextHeat == HeatCall

SpecHeat == InitHeat /\ [][NextHeat]_vars

\* the formula of the segment that ends at boundary b
SegmentEndingAt(b) ==
    CASE b = 200 -> HeatSeg1(b) [] b = 500 -> HeatSeg2(b) [] b = 800 -> HeatSeg3(b)

Abs(n) == IF n < 0 THEN -n ELSE n

\* equal up to one unit (0.0001) on every channel
Close(u, v) == \A k \in 1 .. 3 : Abs(u[k] - v[k]) <= 1

(* C10: get_heatmap_color is continuous at t = 0.2, 0.5 and 0.8: the       *)
(* formula of the segment ending there and the one starting there (the     *)
(* function's value) give the same (r, g, b) up to rounding tolerance.     *)
C10_HeatmapContinuous ==
    heat_out # <<>> /\ heat_t \in {200, 500, 800}
       => Close(SegmentEndingAt(heat_t), heat_out)

----------------------------------------------------------------------------
(* Rasterizer, lines 290-291 and 417-448 *)

Pixels == 1 .. NumPixels
Channels == 1 .. 3
OffScreen == 0

\* lines 290-291
ClearedBuffer == [p \in Pixels |-> <<0, 0, 0>>]

\* lines 431-438: t = spd / smooth_max_spd and depth_fade (both 1/1000)
\* are not evaluated from the particle; the pair ranges over samples
ShadeSamples ==
    { <<0, Milli>>, <<650, 556>>, <<650, Milli>>, <<2 * Milli, Milli>> }

\* lines 435-446: the three values added, r, g, b times depth_fade
Contribution(t, fade) ==
    LET c == get_heatmap_color(t)
    IN  [k \in Channels |-> Trunc(c[k] * fade, Milli)]

\* lines 441-446: one atomic update of one channel
StoreInstead(buf, p, k, v) == [buf EXCEPT ![p][k] = v]

AtomicAdd(buf, p, k, v) == [buf EXCEPT ![p][k] = @ + v]

\* rpc[i]: 0 before iteration i, 1..3 before its update of that channel,
\* 4 after the iteration
IterDone == 4

\* lines 419-438 of iteration i: the projection (px, py) and the colour.
\* proj[i].pix is the pixel hit, or OffScreen when line 430 fails.
RasterProject(i, shades) ==
    /\ pc = "raster"
    /\ rpc[i] = 0
    /\ \E p \in Pixels \cup {OffScreen}, sh \in shades :
         /\ proj' = [proj EXCEPT ![i] =
                       [pix |-> p,
                        c |-> IF p = OffScreen THEN <<0, 0, 0>>
                              ELSE Contribution(sh[1], sh[2])]]
         /\ rpc' = [rpc EXCEPT ![i] = IF p = OffScreen THEN IterDone ELSE 1]
    /\ UNCHANGED <<accum_buffer, out_buffer, pc, stages>>

\* lines 441-446 of iteration i: the next of its three atomic updates
RasterAdd(i) ==
    /\ pc = "raster"
    /\ rpc[i] \in Channels
    /\ accum_buffer' = AtomicAdd(accum_buffer, proj[i].pix, rpc[i],
                                 proj[i].c[rpc[i]])
    /\ rpc' = [rpc EXCEPT ![i] = @ + 1]
    /\ UNCHANGED <<proj, out_buffer, pc, stages>>

\* line 448: the parallel loop ends when every iteration has ended
RasterAnyTime == TRUE

RasterDone == \A i \in DOMAIN rpc : rpc[i] = IterDone

RasterBarrier ==
    /\ pc = "raster"
    /\ RasterDone
    /\ pc' = "tonemap"
    /\ stages' = Append(stages, "raster")
    /\ UNCHANGED <<rpc, proj, accum_buffer, out_buffer>>

\* lines 290-291: the clear pass
ClearPass ==
    /\ pc = "clear"
    /\ accum_buffer' = ClearedBuffer
    /\ pc' = "integrate"
    /\ stages' = Append(stages, "clear")
    /\ UNCHANGED <<out_buffer, rpc, proj>>

\* line 418: the loop starts with every iteration at its beginning
RasterStart ==
    /\ rpc' = [i \in DOMAIN rpc |-> 0]
    /\ UNCHANGED <<accum_buffer, out_buffer, proj>>

RECURSIVE SumOver(_, _, _)
SumOver(S, p, k) ==
    IF S = {} THEN 0
    ELSE LET i == CHOOSE j \in S : TRUE
         IN  (IF proj[i].pix = p THEN proj[i].c[k] ELSE 0)
             + SumOver(S \ {i}, p, k)

(* SpecRaster: the frame loop seen through the accumulation buffer: the    *)
(* clear pass, the rasterization pass with its iterations interleaved,     *)
(* and the rest of the frame, which does not write the buffer.             *)
InitRaster ==
    /\ pc = "clear" /\ stages = <<>> /\ emitted = <<>>
    /\ frame = 0
    /\ fragments = MaxRasterFrames /\ frames_per_fragment = 1
    /\ rpc = [i \in 0 .. NumRasterParticles - 1 |-> IterDone]
    /\ proj = [i \in 0 .. NumRasterParticles - 1 |->
                 [pix |-> OffScreen, c |-> <<0, 0, 0>>]]
    \* malloc'ed and not initialised (line 219): any content
    /\ accum_buffer \in [Pixels -> {<<0, 0, 0>>, <<7, 7, 7>>}]
    /\ out_buffer = <<>>
    /\ algo_timer = 0 /\ current_type = 0 /\ previous_type = 0
    /\ transition_blend = One /\ cur_p = ZeroParams /\ target_p = ZeroParams
    /\ log_lines = 0 /\ blend_apps = 0
    /\ CfgDefault /\ PartOff /\ CamOff /\ AllocOff /\ HeatOff /\ StatsOff

othersRaster == <<cfgVars, schedVars, emitted, partVars, camVars, allocVars,
                  heatVars, statVars>>

RClear == frame < total_frames /\ ClearPass /\ UNCHANGED othersRaster

\* lines 293-414 write neither the buffer nor the rasterizer's state
RBeforeRaster ==
    /\ pc = "integrate"
    /\ RasterStart
    /\ pc' = "raster"
    /\ UNCHANGED <<stages, othersRaster>>

RProject ==
    /\ \E i \in DOMAIN rpc : RasterProject(i, ShadeSamples)
    /\ UNCHANGED othersRaster

RAdd == (\E i \in DOMAIN rpc : RasterAdd(i)) /\ UNCHANGED othersRaster

RBarrier == RasterBarrier /\ UNCHANGED othersRaster

\* lines 450-475 and the next iteration's lines 256-288
RAfterRaster ==
    /\ pc = "tonemap"
    /\ frame' = frame + 1
    /\ pc' = "clear"
    /\ stages' = <<>>
    /\ UNCHANGED <<cfgVars, algo_timer, current_type, previous_type,
                   transition_blend, cur_p, target_p, log_lines, blend_apps,
                   emitted, partVars, camVars, rastVars, allocVars, heatVars, statVars>>

NextRaster ==
    RClear \/ RBeforeRaster \/ RProject \/ RAdd \/ RBarrier \/ RAfterRaster

SpecRaster == InitRaster /\ [][NextRaster]_vars

(* C7: at the end of each frame's rasterization pass every channel of      *)
(* every pixel of the accumulation buffer is the sum of the contributions  *)
(* of exactly the particles of this frame that project onto the pixel,     *)
(* for every interleaving of the particle iterations (nothing lost,        *)
(* nothing overwritten, nothing left from an earlier frame).               *)
C7_AccumIsSumOfContributions ==
    pc = "tonemap" =>
       \A p \in Pixels, k \in Channels :
          accum_buffer[p][k] = SumOver(DOMAIN proj, p, k)

\* second frame, two particles on one pixel, both with light on a channel
C7_Witness ==
    /\ pc = "tonemap"
    /\ frame >= 1
    /\ \E i, j \in DOMAIN proj :
          /\ i # j
          /\ proj[i].pix = proj[j].pix
          /\ proj[i].pix # OffScreen
          /\ proj[i].c # proj[j].c
          /\ proj[i].c[2] > 0 /\ proj[j].c[2] > 0
          /\ accum_buffer[proj[i].pix][2] >= proj[i].c[2] + proj[j].c[2]

----------------------------------------------------------------------------
(* Tone map, lines 451-467 *)

\* (unsigned char) min(logf(1 + v * EXPOSURE) * 45, 255), v in 1/10000.
\* The byte is held rounded down to the levels below; each threshold is the
\* least v at which the byte reaches the level, (e^(level/45) - 1) / 2.5.
ToneLevels ==
    { <<0, 0>>, <<90, 1>>, <<1708, 16>>, <<4146, 32>>, <<7623, 48>>,
      <<12586, 64>>, <<29772, 96>>, <<64769, 128>>, <<1152278, 255>> }

ToneByte(v) ==
    LET reached == { l \in ToneLevels : l[1] <= v }
    IN  (CHOOSE l \in reached : \A m \in reached : m[2] <= l[2])[2]

ToneMapped(buf) == [p \in DOMAIN buf |-> [k \in Channels |-> ToneByte(buf[p][k])]]

----------------------------------------------------------------------------
(* Spec: the frame loop of main(), lines 254-475, pass by pass.  A pass    *)
(* without an async clause ends before the statement after it starts, so   *)
(* a pass is one step, except the rasterization pass, whose iterations     *)
(* share the buffer and are interleaved.                                   *)

StageOrder ==
    <<"sched", "clear", "integrate", "centroid", "deviation", "camera",
      "raster", "tonemap", "emit">>

\* the steps of the whole-pipeline runs (d * DT) and the aggregator outputs
PipeStepSamples == { ZeroVec, [ZeroVec EXCEPT !.x = F(StepJump)] }
PipeMadSamples == { <<0, 0>>, <<9000, 12000>> }
PipeShadeSamples == { <<650, 556>> }

InitPipe ==
    /\ fragments = MaxPipeFrames
    /\ frames_per_fragment = 1
    /\ CfgDefault
    /\ SchedInit(TYPE_CHEN)
    /\ pc = "sched" /\ stages = <<>> /\ emitted = <<>>
    /\ h_pos = [i \in 0 .. NumPipeParticles - 1 |-> ZeroVec]
    \* h_vx, h_vy, h_vz are not initialised (lines 216-218, 225-229)
    /\ h_vel = [i \in 0 .. NumPipeParticles - 1 |-> Vec(F(7), F(7), F(7))]
    /\ respawned = {}
    /\ cam_scale = InitCamScale(-Milli)
    /\ smooth_base_multiplier = BaseMultiplier(TYPE_CHEN)
    /\ mean_dist = <<0, 0>>
    /\ rpc = [i \in 0 .. NumPipeParticles - 1 |-> IterDone]
    /\ proj = [i \in 0 .. NumPipeParticles - 1 |->
                 [pix |-> OffScreen, c |-> <<0, 0, 0>>]]
    \* accum_buffer and out_buffer are not initialised (lines 219-220)
    /\ accum_buffer = [p \in Pixels |-> <<7, 7, 7>>]
    /\ out_buffer = [p \in Pixels |-> <<7, 7, 7>>]
    /\ AllocOff /\ HeatOff /\ StatsOff

\* lines 254-288
Sched ==
    /\ pc = "sched"
    /\ frame < total_frames
    /\ SchedulerUpdate
    /\ BaseMultiplierUpdate
    /\ pc' = "clear"
    /\ stages' = <<"sched">>
    /\ UNCHANGED <<cfgVars, frame, emitted, partVars, cam_scale, mean_dist,
                   rastVars, allocVars, heatVars, statVars>>

\* line 254, the loop condition failing
LoopExit ==
    /\ pc = "sched"
    /\ frame >= total_frames
    /\ pc' = "done"
    /\ UNCHANGED <<cfgVars, schedVars, stages, emitted, partVars, camVars,
                   rastVars, allocVars, heatVars, statVars>>

\* lines 290-291
Clear ==
    /\ ClearPass
    /\ UNCHANGED <<cfgVars, schedVars, emitted, partVars, camVars, allocVars,
                   heatVars, statVars>>

\* lines 293-349
Integrate ==
    /\ pc = "integrate"
    /\ IntegratePass(PipeStepSamples)
    /\ pc' = "centroid"
    /\ stages' = Append(stages, "integrate")
    /\ UNCHANGED <<cfgVars, schedVars, emitted, camVars, rastVars, allocVars,
                   heatVars, statVars>>

\* lines 351-365: the centroid pass (its sums are not evaluated)
StatsCentroid ==
    /\ pc = "centroid"
    /\ pc' = "deviation"
    /\ stages' = Append(stages, "centroid")
    /\ UNCHANGED <<cfgVars, schedVars, emitted, partVars, camVars, rastVars,
                   allocVars, heatVars, statVars>>

\* lines 367-377: the deviation pass
StatsDeviation ==
    /\ pc = "deviation"
    /\ mean_dist' \in PipeMadSamples
    /\ pc' = "camera"
    /\ stages' = Append(stages, "deviation")
    /\ UNCHANGED <<cfgVars, schedVars, emitted, partVars, cam_scale,
                   smooth_base_multiplier, rastVars, allocVars, heatVars, statVars>>

\* lines 379-414, then line 418
Camera ==
    /\ pc = "camera"
    /\ cam_scale' = Lerp(cam_scale,
                         TargetScale(mean_dist[1], mean_dist[2],
                                     smooth_base_multiplier), 5, Milli)
    /\ RasterStart
    /\ pc' = "raster"
    /\ stages' = Append(stages, "camera")
    /\ UNCHANGED <<cfgVars, schedVars, emitted, partVars,
                   smooth_base_multiplier, mean_dist, allocVars, heatVars, statVars>>

othersPipe == <<cfgVars, schedVars, emitted, partVars, camVars, allocVars,
                heatVars, statVars>>

Project ==
    /\ \E i \in DOMAIN rpc : RasterProject(i, PipeShadeSamples)
    /\ UNCHANGED othersPipe

Add == (\E i \in DOMAIN rpc : RasterAdd(i)) /\ UNCHANGED othersPipe

Barrier == RasterBarrier /\ UNCHANGED othersPipe

\* lines 450-467
ToneMap ==
    /\ pc = "tonemap"
    /\ out_buffer' = ToneMapped(accum_buffer)
    /\ pc' = "emit"
    /\ stages' = Append(stages, "tonemap")
    /\ UNCHANGED <<rpc, proj, accum_buffer, othersPipe>>

\* lines 469-475: the frame's bytes are written, the loop goes on
Emit ==
    /\ pc = "emit"
    /\ emitted' = Append(emitted, frame)
    /\ frame' = frame + 1
    /\ pc' = "sched"
    /\ stages' = Append(stages, "emit")
    /\ UNCHANGED <<cfgVars, algo_timer, current_type, previous_type,
                   transition_blend, cur_p, target_p, log_lines, blend_apps,
                   partVars, camVars, rastVars, allocVars, heatVars, statVars>>

Next ==
    \/ Sched \/ LoopExit \/ Clear \/ Integrate \/ StatsCentroid
    \/ StatsDeviation \/ Camera \/ Project \/ Add \/ Barrier \/ ToneMap
    \/ Emit

Init == InitPipe

Spec == Init /\ [][Next]_vars

IsPrefix(s, t) == Len(s) <= Len(t) /\ \A k \in 1 .. Len(s) : s[k] = t[k]

\* the stages completed when the pipeline is at pc
StagesBefore(at) ==
    CASE at = "sched" -> {<<>>, StageOrder}
      [] at = "done" -> {<<>>, StageOrder}
      [] OTHER -> { SubSeq(StageOrder, 1, k - 1) :
                      k \in { n \in 1 .. Len(StageOrder) : StageOrder[n] = at } }

(* C8: in every frame each stage runs exactly once and in the order        *)
(* scheduler, clear, integration, centroid pass, deviation pass, camera,   *)
(* rasterization, tone map, emission; no stage starts before the previous  *)
(* one has completed; frame N's emission precedes frame N+1's clear; the   *)
(* frames are emitted exactly once each in increasing order.               *)
C8_StagesInOrder ==
    /\ IsPrefix(stages, StageOrder)
    /\ stages \in StagesBefore(pc)
    /\ (pc \in {"sched", "done"} /\ frame > 0 => stages = StageOrder)
    /\ (pc \in {"tonemap", "emit"} => \A i \in DOMAIN rpc : rpc[i] = IterDone)
    /\ (pc # "raster" => \A i \in DOMAIN rpc : rpc[i] \in {0, IterDone})
    /\ emitted = [k \in 1 .. frame |-> k - 1]
    /\ (pc = "done" => frame = total_frames)

C8_Witness ==
    /\ pc = "done"
    /\ Len(emitted) >= 2
    /\ \E i \in DOMAIN proj : proj[i].pix # OffScreen

----------------------------------------------------------------------------
(* SpecAlloc: startup and the first frame, lines 213-231, 254-470 and 483, *)
(* with malloc able to return NULL.  The code tests none of the eight      *)
(* results, so startup goes on with whatever malloc returned.  An access   *)
(* through a null pointer is undefined: the run stops there or goes on.    *)

Arrays ==
    {"h_x", "h_y", "h_z", "h_vx", "h_vy", "h_vz", "accum_buffer", "out_buffer"}

PositionArrays == {"h_x", "h_y", "h_z"}
ParticleArrays == PositionArrays \cup {"h_vx", "h_vy", "h_vz"}

\* a statement that reads or writes the arrays, then control at nextpc
Access(arrays, deed, nextpc) ==
    /\ did' = did \cup {deed}
    /\ IF arrays \cap failed # {}
       THEN nullDeref' = TRUE /\ pc' \in {"crashed", nextpc}
       ELSE nullDeref' = nullDeref /\ pc' = nextpc
    /\ UNCHANGED failed

othersAlloc == <<cfgVars, schedVars, stages, emitted, partVars, camVars,
                 rastVars, heatVars, statVars>>

InitAlloc ==
    /\ fragments = 20 /\ frames_per_fragment = 300     \* lines 183-184
    /\ pc = "malloc"
    /\ failed = {} /\ did = {} /\ nullDeref = FALSE
    /\ stages = <<>> /\ emitted = <<>>
    /\ CfgDefault /\ SchedOff /\ PartOff /\ CamOff /\ RastOff /\ HeatOff /\ StatsOff

\* lines 213-220: the eight mallocs; any of them may return NULL
Alloc ==
    /\ pc = "malloc"
    /\ failed' \in SUBSET Arrays
    /\ pc' = "box"
    /\ UNCHANGED <<did, nullDeref, othersAlloc>>

\* lines 225-229: the initial box is written into h_x, h_y, h_z
InitBox ==
    /\ pc = "box"
    /\ Access(PositionArrays, "init", "clear0")
    /\ UNCHANGED othersAlloc

\* lines 290-291 of frame 0
AClear ==
    /\ pc = "clear0"
    /\ Access({"accum_buffer"}, "pass", "integrate0")
    /\ UNCHANGED othersAlloc

\* lines 298-349 of frame 0
AIntegrate ==
    /\ pc = "integrate0"
    /\ Access(ParticleArrays, "pass", "stats0")
    /\ UNCHANGED othersAlloc

\* lines 355-377 of frame 0
AStats ==
    /\ pc = "stats0"
    /\ Access(ParticleArrays, "pass", "raster0")
    /\ UNCHANGED othersAlloc

\* lines 417-448 of frame 0
ARaster ==
    /\ pc = "raster0"
    /\ Access(ParticleArrays \cup {"accum_buffer"}, "pass", "tonemap0")
    /\ UNCHANGED othersAlloc

\* lines 451-467 of frame 0
AToneMap ==
    /\ pc = "tonemap0"
    /\ Access({"accum_buffer", "out_buffer"}, "pass", "emit0")
    /\ UNCHANGED othersAlloc

\* lines 469-470 of frame 0
AEmit ==
    /\ pc = "emit0"
    /\ Access({"out_buffer"}, "emit", "exit")
    /\ UNCHANGED othersAlloc

NextAlloc ==
    Alloc \/ InitBox \/ AClear \/ AIntegrate \/ AStats \/ ARaster
    \/ AToneMap \/ AEmit

SpecAlloc == InitAlloc /\ [][NextAlloc]_vars

(* C9: when the allocation of any particle array or of the accumulation or *)
(* output buffer fails, startup aborts cleanly: no particle is             *)
(* initialised, no frame pass runs, no frame bytes are emitted, and        *)
(* nothing is read or written through the failed allocation.               *)
C9_AllocFailureAbortsCleanly ==
    failed # {} => did = {} /\ ~nullDeref /\ pc \in {"box", "aborted"}

----------------------------------------------------------------------------
(* SpecStats: the statistics passes of one frame, lines 351-377, for a     *)
(* particle count num_particles (line 186, or -p at line 195).  Each of    *)
(* the two loops visits the indices 0, 100, 200, ... below num_particles;  *)
(* their sums are not evaluated, only how many particles they add up and   *)
(* what the sums are divided by.                                           *)

\* line 352
sample_stride == 100

othersStats == <<cfgVars, schedVars, stages, emitted, partVars, camVars,
                 rastVars, allocVars, heatVars>>

InitStats ==
    /\ num_particles \in 1 .. MaxStatParticles
    /\ num_samples = 0 /\ stat_i = 0 /\ visited = 0
    /\ pc = "stats"
    /\ stages = <<>> /\ emitted = <<>>
    /\ fragments = 1 /\ frames_per_fragment = 1
    /\ CfgDefault /\ SchedOff /\ PartOff /\ CamOff /\ RastOff /\ AllocOff
    /\ HeatOff

\* lines 352-354, and the loop header of line 356
StatsBegin ==
    /\ pc = "stats"
    /\ num_samples' = num_particles \div sample_stride
    /\ stat_i' = 0
    /\ visited' = 0
    /\ pc' = "centroid_loop"
    /\ UNCHANGED <<num_particles, othersStats>>

\* one iteration of a stride loop, lines 356-363 and 369-375
StrideVisit ==
    /\ stat_i < num_particles
    /\ visited' = visited + 1
    /\ stat_i' = stat_i + sample_stride
    /\ UNCHANGED <<pc, num_particles, num_samples, othersStats>>

\* the loop condition failing: the loop has ended
StrideEnd ==
    /\ stat_i >= num_particles
    /\ UNCHANGED <<statVars, othersStats>>

\* lines 356-363
CentroidVisit ==
    /\ pc = "centroid_loop"
    /\ StrideVisit

\* line 356 failing, then lines 364-365: sum_x / num_samples
CentroidDivide ==
    /\ pc = "centroid_loop"
    /\ StrideEnd
    /\ pc' = "centroid_divided"

\* lines 367-369: the second loop starts
DeviationBegin ==
    /\ pc = "centroid_divided"
    /\ stat_i' = 0
    /\ visited' = 0
    /\ pc' = "deviation_loop"
    /\ UNCHANGED <<num_particles, num_samples, othersStats>>

\* lines 369-375
DeviationVisit ==
    /\ pc = "deviation_loop"
    /\ StrideVisit

\* line 369 failing, then lines 376-377: sum_dist_x / num_samples
DeviationDivide ==
    /\ pc = "deviation_loop"
    /\ StrideEnd
    /\ pc' = "deviation_divided"

NextStats ==
    \/ StatsBegin \/ CentroidVisit \/ CentroidDivide \/ DeviationBegin
    \/ DeviationVisit \/ DeviationDivide

SpecStats == InitStats /\ [][NextStats]_vars

(* C11: for every particle count N >= 1 the divisor of the centroid and of *)
(* the mean absolute deviation, num_samples, is the number of particles    *)
(* the stride-100 loop visited (indices 0, 100, 200, ... below N), and is  *)
(* never zero.                                                             *)
C11_DivisorIsVisitedCount ==
    pc \in {"centroid_divided", "deviation_divided"} =>
       num_samples = visited /\ num_samples # 0

=============================================================================
